---- MODULE Spec2Model ----
(***************************************************************************)
(* Model of pci_scrapper.py: the crawl of the role ("cargo") catalog, the  *)
(* master list exam_pdf_urls.json and the per-cargo files                  *)
(* <cargo>_exams.json.                                                     *)
(*                                                                         *)
(* Strings are TLA+ strings where the program only compares and joins      *)
(* them, and sequences of tokens where it inspects them (a cargo name is a *)
(* sequence of characters, a link text or href a sequence of substrings,   *)
(* with "http" and a leading "/" as tokens of their own).                  *)
(***************************************************************************)
EXTENDS Integers, Sequences, FiniteSets, TLC

VARIABLES
    files,          \* per-cargo JSON files on disk: file name -> content
    master,         \* exam_pdf_urls.json on disk
    pc,             \* position of main / process_cargo
    run,            \* number of the current execution of the script
    cargoIdx,       \* main: index of the cargo being processed
    exam_pdf_urls,  \* process_cargo: the master dict in memory
    exam_link_list, \* process_cargo: the listing of the current cargo
    i,              \* process_cargo: index of the current exam link
    pdf_urls,       \* process_cargo: result of the last extract_pdf_urls
    page,           \* the document the browser page shows: origin and links
    pauses,         \* history: the kind of the last page.goto of the
                    \*          execution and the time.sleep calls since
    site,           \* the listing each cargo page shows
    detailCalls,    \* history: exam key -> extract_pdf_urls calls in this run
    resolved,       \* history: (position, agency, year) of the references
                    \*          that were entered into the master dict
    snap,           \* history: the disk when the previous execution ended
    last            \* history: the last step the program performed

vars == <<files, master, pc, run, cargoIdx, exam_pdf_urls, exam_link_list, i,
          pdf_urls, page, pauses, site, detailCalls, resolved, snap, last>>

-----------------------------------------------------------------------------
(* Bounds *)

MaxRuns == 2

\* the largest number of links of a document whose links are chosen freely
MaxLinks == 3

\* the largest number of rows below the header of a table whose rows are
\* chosen freely
MaxRows == 3

-----------------------------------------------------------------------------
(* Python dicts *)

\* dict.get(f, '')
Get(d, f) == IF f \in DOMAIN d THEN d[f] ELSE ""

\* DictUpdate that keeps the value of d for a key both have
DictUpdate_KeepOld(d, o) ==
    [f \in (DOMAIN d) \cup (DOMAIN o) |-> IF f \in DOMAIN d THEN d[f] ELSE o[f]]

\* d.update(o): every key of o is set in d, the other keys of d are kept
DictUpdate(d, o) ==
    [f \in (DOMAIN d) \cup (DOMAIN o) |-> IF f \in DOMAIN o THEN o[f] ELSE d[f]]

\* DictSet without the assignment
DictSet_Noop(d, k, v) == d

\* d[k] = v
DictSet(d, k, v) ==
    [f \in (DOMAIN d) \cup {k} |-> IF f = k THEN v ELSE d[f]]

EmptyDict == [f \in {} |-> ""]

\* f"{d.get('position','')} - {d.get('agency','')} - {d.get('year','')}"
ExamKey(d) ==
    Get(d, "position") \o " - " \o Get(d, "agency") \o " - " \o Get(d, "year")

\* The three identity fields of a reference or a record, as a triple.
Triple(d) == <<Get(d, "position"), Get(d, "agency"), Get(d, "year")>>

-----------------------------------------------------------------------------
(* The catalog and the per-cargo file names *)

\* main: the catalog, cut down to two entries
cargos ==
    << [name |-> <<"A", "ç", "ã", "o">>, url |-> "https://site/provas/acao"],
       [name |-> <<"T", "é", "c", " ", "X">>, url |-> "https://site/provas/tec-x"] >>

\* str.lower() on the characters of the model's alphabet
LowerChar(c) ==
    CASE c = "A" -> "a"
      [] c = "T" -> "t"
      [] c = "X" -> "x"
      [] OTHER -> c

\* the chain of str.replace calls of update_exam_with_pdf_urls
ReplaceChar(c) ==
    CASE c \in {"ã", "á", "â"} -> "a"
      [] c \in {"é", "ê"} -> "e"
      [] c = "í" -> "i"
      [] c \in {"ó", "ô"} -> "o"
      [] c = "ú" -> "u"
      [] c = "ç" -> "c"
      [] c \in {" ", "-", "/", "\\"} -> "_"
      [] OTHER -> c

CargoFilename(cargo_name) ==
    [n \in 1..Len(cargo_name) |-> ReplaceChar(LowerChar(cargo_name[n]))]

\* f"{cargo_filename}_exams.json"
JsonFile(cargo_name) == CargoFilename(cargo_name) \o <<"_exams.json">>

FileNames == {JsonFile(cargos[c].name) : c \in 1..Len(cargos)}

-----------------------------------------------------------------------------
(* Files.  A file is absent, unreadable as the expected JSON value         *)
(* ("corrupt": truncated, not JSON, or JSON of another type), holds a      *)
(* value of the expected shape ("ok"), or holds a JSON list whose elements *)
(* are not objects ("non_records").                                        *)

Absent == [st |-> "absent", data |-> <<>>]
Corrupt == [st |-> "corrupt", data |-> <<>>]
Ok(v) == [st |-> "ok", data |-> v]
NonRecords == [st |-> "non_records", data |-> <<1>>]

\* the outcomes of   with open(path, "w") as f: json.dump(value, f)
\*   ok          the file holds the new value
\*   open_error  open() raised, the file is untouched
\*   write_error open() truncated the file and json.dump raised part-way
\*   interrupted the process was stopped between open() and the end of dump
WriteOutcomes == {"ok", "open_error", "write_error", "interrupted"}

WriteFile(old, value, outcome) ==
    CASE outcome = "ok" -> Ok(value)
      [] outcome = "open_error" -> old
      [] OTHER -> Corrupt

\* LoadList that reads nothing: every call starts from an empty list
LoadList_Empty(file) == <<>>

\* update_exam_with_pdf_urls: the load of the per-cargo file; the only test
\* on a value that parses is isinstance(exams_list, list)
LoadList(file) ==
    IF file.st \in {"ok", "non_records"} THEN file.data ELSE <<>>

\* update_exam_with_pdf_urls: the loop over the loaded list calls .get on
\* each element, which raises AttributeError on one that is not a dict
LoopRaises(file) == file.st = "non_records"

\* LoadDict with the load left out: the master list always starts empty
LoadDict_Empty(file) == EmptyDict

\* process_cargo: the load of the master list
LoadDict(file) == IF file.st = "ok" THEN file.data ELSE EmptyDict

-----------------------------------------------------------------------------
(* update_exam_with_pdf_urls: the merge *)

\* FindByKey with a comparison that never matches
FindByKey_Never(exams_list, key) == 0

\* index of the first record of exams_list whose key is key, 0 if none
FindByKey(exams_list, key) ==
    IF \E n \in 1..Len(exams_list) : ExamKey(exams_list[n]) = key
    THEN CHOOSE n \in 1..Len(exams_list) :
            /\ ExamKey(exams_list[n]) = key
            /\ \A m \in 1..(n - 1) : ExamKey(exams_list[m]) # key
    ELSE 0

\* UpdatedList that leaves the PdfUrls of a record that has them alone
UpdatedList_KeepUrls(exams_list, exam_details_from_link, pdf_urls_found) ==
    LET n == FindByKey(exams_list, ExamKey(exam_details_from_link))
    IN  IF n # 0
        THEN [exams_list EXCEPT
                ![n] = IF "PdfUrls" \in DOMAIN exams_list[n]
                       THEN DictSet(DictUpdate(exams_list[n],
                                               exam_details_from_link),
                                    "PdfUrls", exams_list[n]["PdfUrls"])
                       ELSE DictSet(DictUpdate(exams_list[n],
                                               exam_details_from_link),
                                    "PdfUrls", pdf_urls_found)]
        ELSE Append(exams_list,
                    DictSet(exam_details_from_link, "PdfUrls", pdf_urls_found))

\* UpdatedList without the break: every record with the key is updated
UpdatedList_EveryMatch(exams_list, exam_details_from_link, pdf_urls_found) ==
    IF FindByKey(exams_list, ExamKey(exam_details_from_link)) # 0
    THEN [n \in 1..Len(exams_list) |->
            IF ExamKey(exams_list[n]) = ExamKey(exam_details_from_link)
            THEN DictSet(DictUpdate(exams_list[n], exam_details_from_link),
                         "PdfUrls", pdf_urls_found)
            ELSE exams_list[n]]
    ELSE Append(exams_list,
                DictSet(exam_details_from_link, "PdfUrls", pdf_urls_found))

\* update_exam_with_pdf_urls: the loop with its break, and the append
UpdatedList(exams_list, exam_details_from_link, pdf_urls_found) ==
    LET n == FindByKey(exams_list, ExamKey(exam_details_from_link))
    IN  IF n # 0
        THEN [exams_list EXCEPT
                ![n] = DictSet(DictUpdate(exams_list[n], exam_details_from_link),
                               "PdfUrls", pdf_urls_found)]
        ELSE Append(exams_list,
                    DictSet(exam_details_from_link, "PdfUrls", pdf_urls_found))

-----------------------------------------------------------------------------
(* extract_pdf_urls: the script run in the page *)

RECURSIVE Concat(_)
Concat(tokens) ==
    IF tokens = <<>> THEN "" ELSE Head(tokens) \o Concat(Tail(tokens))

Includes(tokens, t) == \E n \in 1..Len(tokens) : tokens[n] = t

\* href.startsWith("http") ? href : window.location.origin + href
Absolute(origin, href) ==
    IF href # <<>> /\ Head(href) = "http"
    THEN Concat(href)
    ELSE origin \o Concat(href)

IsPdf(link) == link.href # <<>> /\ Includes(link.href, ".pdf")

RECURSIVE Collect(_, _, _)
Collect(origin, links, onlyBaixar) ==
    IF links = <<>> THEN <<>>
    ELSE LET link == Head(links)
             rest == Collect(origin, Tail(links), onlyBaixar)
         IN  IF (onlyBaixar => Includes(link.text, "Baixar")) /\ IsPdf(link)
             THEN <<Absolute(origin, link.href)>> \o rest
             ELSE rest

\* Dedupe that keeps the last occurrence of each URL instead of the first
RECURSIVE Dedupe_KeepLast(_)
Dedupe_KeepLast(s) ==
    IF s = <<>> THEN <<>>
    ELSE LET rest == Dedupe_KeepLast(Tail(s))
         IN  IF \E n \in 1..Len(rest) : rest[n] = Head(s)
             THEN rest
             ELSE <<Head(s)>> \o rest

\* [...new Set(pdfLinks)]: first occurrences, in order
RECURSIVE Dedupe(_)
Dedupe(s) ==
    IF s = <<>> THEN <<>>
    ELSE LET init == Dedupe(SubSeq(s, 1, Len(s) - 1))
             x == s[Len(s)]
         IN  IF \E n \in 1..Len(init) : init[n] = x THEN init ELSE Append(init, x)

\* ExtractPdfLinks with both loops always run
ExtractPdfLinks_BothPasses(document) ==
    Dedupe(Collect(document.origin, document.links, TRUE)
           \o Collect(document.origin, document.links, FALSE))

\* page.evaluate(...) on the document the page shows
ExtractPdfLinks(document) ==
    LET first == Collect(document.origin, document.links, TRUE)
        pdfLinks == IF Len(first) = 0
                    THEN Collect(document.origin, document.links, FALSE)
                    ELSE first
    IN  Dedupe(pdfLinks)

-----------------------------------------------------------------------------
(* extract_exam_links: the script run in the page *)

\* Trim that leaves the white space where it is
Trim_None(tokens) == Concat(tokens)

\* textContent.trim(): the text without the white space at its ends
RECURSIVE Trim(_)
Trim(tokens) ==
    IF tokens = <<>> THEN ""
    ELSE IF Head(tokens) = " " THEN Trim(Tail(tokens))
    ELSE IF tokens[Len(tokens)] = " "
         THEN Trim(SubSeq(tokens, 1, Len(tokens) - 1))
    ELSE Concat(tokens)

\* row.querySelector("td:nth-child(k)"): the k-th cell if it is a td
Td(row, k) == IF k <= Len(row) /\ row[k].tag = "td" THEN <<row[k]>> ELSE <<>>

\* row.querySelector("td:nth-child(k)") ? ... .textContent.trim() : ""
TdText(row, k) == IF Td(row, k) # <<>> THEN Trim(row[k].text) ELSE ""

\* row.querySelector("td:nth-child(k) a") ? ... .textContent.trim() : ""
TdLinkText(row, k) ==
    IF Td(row, k) # <<>> /\ row[k].a # <<>> THEN Trim(row[k].a[1].text) ELSE ""

\* firstCell && link && link.href
HasExamLink(row) ==
    Td(row, 1) # <<>> /\ row[1].a # <<>> /\ row[1].a[1].href # ""

\* RowToLink with a cargo_source field among the fields pushed
RowToLink_Source(row) ==
    [url |-> row[1].a[1].href,
     position |-> Trim(row[1].a[1].text),
     year |-> TdText(row, 2),
     agency |-> TdLinkText(row, 3),
     organizer |-> TdLinkText(row, 4),
     level |-> TdText(row, 5),
     cargo_source |-> Trim(row[1].a[1].text)]

\* the object pushed for a row
RowToLink(row) ==
    [url |-> row[1].a[1].href,
     position |-> Trim(row[1].a[1].text),
     year |-> TdText(row, 2),
     agency |-> TdLinkText(row, 3),
     organizer |-> TdLinkText(row, 4),
     level |-> TdText(row, 5)]

\* page.evaluate(...): the loop from the second row of document's rows
ExtractExamRows(document) ==
    LET kept == IF document.rows = <<>> THEN <<>>
                ELSE SelectSeq(Tail(document.rows), HasExamLink)
    IN  [n \in 1..Len(kept) |-> RowToLink(kept[n])]

-----------------------------------------------------------------------------
(* The site.  A detail page is a sequence of links; what an exam's detail  *)
(* page holds is fixed, which listing a cargo page shows is chosen when    *)
(* the behaviour starts and stays the same over the executions.            *)

Origin == "https://site"

LinkA == [text |-> <<"Baixar", " prova">>, href |-> <<"/", "files/a", ".pdf">>]
LinkB == [text |-> <<"gabarito">>, href |-> <<"http", "s://cdn/b", ".pdf">>]
LinkH == [text |-> <<"Baixar", " app">>, href |-> <<"/", "app">>]
LinkN == [text |-> <<"home">>, href |-> <<>>]
\* the document of LinkA again, by its absolute address
LinkC == [text |-> <<"Baixar", " gabarito">>,
          href |-> <<"http", "s://site", "/files/a", ".pdf">>]
LinkD == [text |-> <<"Baixar", " edital">>, href |-> <<"/", "files/d", ".pdf">>]
\* a link whose href is relative to the document, without a leading "/"
LinkR == [text |-> <<"Baixar", " anexo">>, href |-> <<"files/r", ".pdf">>]

PageA == [origin |-> Origin, links |-> <<LinkB, LinkA, LinkA>>, rows |-> <<>>]
PageB == [origin |-> Origin, links |-> <<LinkB, LinkN, LinkB>>, rows |-> <<>>]
PageNone == [origin |-> Origin, links |-> <<LinkN, LinkH>>, rows |-> <<>>]

\* rows a listing can show: E1 and E2 differ in position and agency and have
\* the same key string; E3 has no documents on its detail page
E1 == [url |-> "https://site/exam/1", position |-> "a - b", year |-> "2020",
       agency |-> "c", organizer |-> "o1", level |-> "l1"]
E2 == [url |-> "https://site/exam/2", position |-> "a", year |-> "2020",
       agency |-> "b - c", organizer |-> "o2", level |-> ""]
E3 == [url |-> "https://site/exam/3", position |-> "e", year |-> "2020",
       agency |-> "c", organizer |-> "o1", level |-> "l1"]
E4 == [url |-> "https://site/exam/4", position |-> "d", year |-> "2021",
       agency |-> "", organizer |-> "", level |-> "l1"]

ExamLinks == {E1, E2, E3, E4}

Keys == {ExamKey(e) : e \in ExamLinks}

DetailPage(url) ==
    CASE url = E1.url -> PageA
      [] url = E2.url -> PageB
      [] url = E3.url -> PageNone
      [] OTHER -> PageA

Listings == { <<>>, <<E1, E2>>, <<E2, E3, E4>> }

\* a new browser page: an empty document
NoPage == [origin |-> "", links |-> <<>>, rows |-> <<>>]

\* a table cell: its tag, its textContent as tokens (" " is white space) and
\* its first link, if any, with the link's textContent and its resolved href
Cell(tag, text, a) == [tag |-> tag, text |-> text, a |-> a]

HeaderRow ==
    <<Cell("th", <<"Cargo">>, <<>>), Cell("th", <<"Ano">>, <<>>),
      Cell("th", <<"Orgao">>, <<>>), Cell("th", <<"Banca">>, <<>>),
      Cell("th", <<"Nivel">>, <<>>)>>

\* a cell that shows name as a link, or nothing if name is empty
LinkCell(name) ==
    IF name = "" THEN Cell("td", <<>>, <<>>)
    ELSE Cell("td", <<" ", name, " ">>,
              <<[text |-> <<name, " ">>, href |-> "https://site/q"]>>)

\* the table row that shows the exam e
RowOf(e) ==
    <<Cell("td", <<" ", e.position, " ">>,
           <<[text |-> <<" ", e.position>>, href |-> e.url]>>),
      Cell("td", <<e.year, " ">>, <<>>),
      LinkCell(e.agency),
      LinkCell(e.organizer),
      Cell("td", <<" ", e.level>>, <<>>)>>

\* the document of a cargo page: the table, and its links one per row
ListingPage(listing) ==
    [origin |-> Origin,
     links |-> [n \in 1..Len(listing) |->
                  [text |-> <<listing[n].position>>, href |-> <<listing[n].url>>]],
     rows |-> <<HeaderRow>> \o [n \in 1..Len(listing) |-> RowOf(listing[n])]]

CargoUrls == {cargos[c].url : c \in 1..Len(cargos)}

Sites == [CargoUrls -> Listings]

-----------------------------------------------------------------------------
(* The program *)

\* a step of the program, as the history variable last records it: the
\* operation, the exam reference it worked on, for an upsert the file, the
\* URLs passed, whether a record with the reference's key (found) or with its
\* three identity fields (tripleHit) was in the file, how the step ended and
\* how many times it called page.goto
Step(op, ref, found, tripleHit, out, navs) ==
    [op |-> op, ref |-> ref, file |-> <<>>, urls |-> <<>>, found |-> found,
     tripleHit |-> tripleHit, out |-> out, navs |-> navs, ret |-> "none"]

NoStep == Step("none", EmptyDict, FALSE, FALSE, "", 0)

\* which file the last step wrote successfully, if any
FlushKind(step) ==
    IF step.op = "update_exam_with_pdf_urls" /\ step.out = "ok" THEN "cargo"
    ELSE IF step.op = "save_master" /\ step.out = "ok" THEN "master"
    ELSE "none"

Running == {"main", "load_master", "listing", "loop", "upsert", "save_master"}

NoCalls == [k \in Keys |-> 0]

\* time.sleep(2) at the end of the processing of an exam
ExamDelay == 2

\* time.sleep(3) after a cargo
CargoDelay == 3

NoPauses == [after |-> "none", slept |-> <<>>]

\* the history after a page.goto of the given kind
After(kind) == [after |-> kind, slept |-> <<>>]

\* Sleep without the call
Sleep_None(p, seconds) == p

\* the history after time.sleep(seconds)
Sleep(p, seconds) == [p EXCEPT !.slept = Append(@, seconds)]

\* the history variable snap: the disk the previous execution left, the file
\* whose successful write was its last step if it was interrupted right after
\* one, and the exam keys it called extract_pdf_urls for
NoSnap == [files |-> [f \in FileNames |-> Absent], master |-> Absent,
           after |-> "none", calls |-> {}]

Init ==
    /\ files = [f \in FileNames |-> Absent]
    /\ master = Absent
    /\ pc = "main"
    /\ run = 1
    /\ cargoIdx = 1
    /\ exam_pdf_urls = EmptyDict
    /\ exam_link_list = <<>>
    /\ i = 1
    /\ pdf_urls = <<>>
    /\ page = NoPage
    /\ pauses = NoPauses
    /\ site \in Sites
    /\ detailCalls = NoCalls
    /\ resolved = {}
    /\ snap = NoSnap
    /\ last = NoStep

\* the process is gone: its memory and its browser with it
Halt(how) ==
    /\ pc' = how
    /\ exam_pdf_urls' = EmptyDict
    /\ exam_link_list' = <<>>
    /\ i' = 1
    /\ pdf_urls' = <<>>
    /\ page' = NoPage
    /\ pauses' = NoPauses

\* main: the loop over the catalog; after the last cargo the script ends
MainLoop ==
    /\ pc = "main"
    /\ IF cargoIdx <= Len(cargos)
       THEN /\ pc' = "load_master"
            /\ UNCHANGED <<exam_pdf_urls, exam_link_list, i, pdf_urls, page,
                           pauses>>
       ELSE Halt("done")
    /\ last' = Step("main", EmptyDict, FALSE, FALSE, "", 0)
    /\ UNCHANGED <<files, master, run, cargoIdx, site, detailCalls, resolved,
                   snap>>

\* process_cargo: load the master list
LoadMaster ==
    /\ pc = "load_master"
    /\ exam_pdf_urls' = LoadDict(master)
    /\ pc' = "listing"
    /\ last' = Step("load_master", EmptyDict, FALSE, FALSE, "", 0)
    /\ UNCHANGED <<files, master, run, cargoIdx, exam_link_list, i, pdf_urls,
                   page, pauses, site, detailCalls, resolved, snap>>

\* extract_exam_links: page.goto succeeds and the script returns the rows
ExtractExamLinks ==
    /\ pc = "listing"
    /\ page' = ListingPage(site[cargos[cargoIdx].url])
    /\ pauses' = After("listing")
    /\ exam_link_list' = ExtractExamRows(page')
    /\ i' = 1
    /\ pc' = "loop"
    /\ last' = Step("extract_exam_links", EmptyDict, FALSE, FALSE, "ok", 1)
    /\ UNCHANGED <<files, master, run, cargoIdx, exam_pdf_urls, pdf_urls,
                   site, detailCalls, resolved, snap>>

\* extract_exam_links: page.goto raises; nothing catches it up to main
ExtractExamLinksFails ==
    /\ pc = "listing"
    /\ Halt("raised")
    /\ last' = Step("extract_exam_links", EmptyDict, FALSE, FALSE, "raised", 1)
    /\ UNCHANGED <<files, master, run, cargoIdx, site, detailCalls, resolved,
                   snap>>

\* CargoDone without the loop condition: the cargo can be left at any exam
CargoDone_Early ==
    /\ pc = "loop"
    /\ pc' = "main"
    /\ cargoIdx' = cargoIdx + 1
    /\ last' = Step("cargo_done", EmptyDict, FALSE, FALSE, "", 0)
    /\ pauses' = Sleep(pauses, CargoDelay)
    /\ UNCHANGED <<files, master, run, exam_pdf_urls, exam_link_list, i,
                   pdf_urls, page, site, detailCalls, resolved, snap>>

\* process_cargo: the listing is exhausted; main sleeps and takes the next cargo
CargoDone ==
    /\ pc = "loop"
    /\ i > Len(exam_link_list)
    /\ pc' = "main"
    /\ cargoIdx' = cargoIdx + 1
    /\ last' = Step("cargo_done", EmptyDict, FALSE, FALSE, "", 0)
    /\ pauses' = Sleep(pauses, CargoDelay)
    /\ UNCHANGED <<files, master, run, exam_pdf_urls, exam_link_list, i,
                   pdf_urls, page, site, detailCalls, resolved, snap>>

\* InMaster with the test always failing: nothing is ever skipped
InMaster_Never(exam_key, dict) == FALSE

\* the test   exam_key in exam_pdf_urls
InMaster(exam_key, dict) == exam_key \in DOMAIN dict

\* SkipCached with a refresh: the fields of the reference are written into
\* the stored record of the cargo's file before the loop continues
SkipCached_Refresh ==
    /\ pc = "loop"
    /\ i <= Len(exam_link_list)
    /\ InMaster(ExamKey(exam_link_list[i]), exam_pdf_urls)
    /\ i' = i + 1
    /\ last' = Step("skip", exam_link_list[i], FALSE, FALSE, "", 0)
    /\ LET f == JsonFile(cargos[cargoIdx].name)
           n == IF files[f].st = "ok"
                THEN FindByKey(files[f].data, ExamKey(exam_link_list[i]))
                ELSE 0
       IN  files' = IF n = 0 THEN files
                    ELSE [files EXCEPT ![f].data[n] =
                             DictUpdate(@, exam_link_list[i])]
    /\ UNCHANGED <<master, pc, run, cargoIdx, exam_pdf_urls, exam_link_list,
                   pdf_urls, page, pauses, site, detailCalls, resolved, snap>>

\* update_exam_with_pdf_urls: load, merge, write back
UpdateExam(fs, cargo_name, exam_details_from_link, pdf_urls_found, outcome) ==
    IF LoopRaises(fs[JsonFile(cargo_name)])
    THEN fs
    ELSE [fs EXCEPT ![JsonFile(cargo_name)] =
            WriteFile(@, UpdatedList(LoadList(@), exam_details_from_link,
                                     pdf_urls_found), outcome)]

\* SkipCached with the call the comments of the branch describe:
\* update_exam_with_pdf_urls with the URLs the master list holds for the key
SkipCached_Store ==
    /\ pc = "loop"
    /\ i <= Len(exam_link_list)
    /\ InMaster(ExamKey(exam_link_list[i]), exam_pdf_urls)
    /\ i' = i + 1
    /\ last' = Step("skip", exam_link_list[i], FALSE, FALSE, "", 0)
    /\ files' = UpdateExam(files, cargos[cargoIdx].name, exam_link_list[i],
                           exam_pdf_urls[ExamKey(exam_link_list[i])], "ok")
    /\ UNCHANGED <<master, pc, run, cargoIdx, exam_pdf_urls, exam_link_list,
                   pdf_urls, page, pauses, site, detailCalls, resolved, snap>>

\* process_cargo: the exam key is in the master list: continue
SkipCached ==
    /\ pc = "loop"
    /\ i <= Len(exam_link_list)
    /\ InMaster(ExamKey(exam_link_list[i]), exam_pdf_urls)
    /\ i' = i + 1
    /\ last' = Step("skip", exam_link_list[i], FALSE, FALSE, "", 0)
    /\ UNCHANGED <<files, master, pc, run, cargoIdx, exam_pdf_urls,
                   exam_link_list, pdf_urls, page, pauses, site, detailCalls,
                   resolved, snap>>

\* Found without the test: an empty result is entered like any other
Found_Always(urls) == TRUE

\* the test   if pdf_urls:   that lets a result into the master list and the
\* per-cargo file
Found(urls) == Len(urls) > 0

\* process_cargo: extract_pdf_urls returns; a found result enters the master dict
ExtractPdfUrls ==
    /\ pc = "loop"
    /\ i <= Len(exam_link_list)
    /\ ~InMaster(ExamKey(exam_link_list[i]), exam_pdf_urls)
    /\ LET ref == exam_link_list[i]
           urls == ExtractPdfLinks(DetailPage(ref.url))
       IN  /\ page' = DetailPage(ref.url)
           /\ pauses' = After("detail")
           /\ pdf_urls' = urls
           /\ detailCalls' = [detailCalls EXCEPT ![ExamKey(ref)] = @ + 1]
           /\ IF Found(urls)
              THEN /\ exam_pdf_urls' = DictSet(exam_pdf_urls, ExamKey(ref), urls)
                   /\ resolved' = resolved \cup {Triple(ref)}
                   /\ pc' = "upsert"
              ELSE /\ pc' = "save_master"
                   /\ UNCHANGED <<exam_pdf_urls, resolved>>
           /\ last' = Step("extract_pdf_urls", ref, FALSE, FALSE, "ok", 1)
    /\ UNCHANGED <<files, master, run, cargoIdx, exam_link_list, i, site,
                   snap>>

\* extract_pdf_urls: page.goto raises; nothing catches it up to main
ExtractPdfUrlsFails ==
    /\ pc = "loop"
    /\ i <= Len(exam_link_list)
    /\ ~InMaster(ExamKey(exam_link_list[i]), exam_pdf_urls)
    /\ detailCalls' = [detailCalls EXCEPT ![ExamKey(exam_link_list[i])] = @ + 1]
    /\ last' = Step("extract_pdf_urls", exam_link_list[i], FALSE, FALSE,
                    "raised", 1)
    /\ Halt("raised")
    /\ UNCHANGED <<files, master, run, cargoIdx, site, resolved, snap>>

\* UpsertReturn of a function that ends with   return True   whatever happened
UpsertReturn_True(outcome) == "True"

\* update_exam_with_pdf_urls: what the try block around the write returns:
\* True after json.dump, False from the except clause; nothing when the
\* process is stopped in the write
UpsertReturn(outcome) ==
    CASE outcome = "ok" -> "True"
      [] outcome \in {"open_error", "write_error"} -> "False"
      [] OTHER -> "none"

\* what the history records of a call of update_exam_with_pdf_urls
UpsertStep(fs, cargo_name, ref, urls, outcome) ==
    LET exams_list == LoadList(fs[JsonFile(cargo_name)])
    IN  IF LoopRaises(fs[JsonFile(cargo_name)])
        THEN [Step("update_exam_with_pdf_urls", ref, FALSE, FALSE, "raised", 0)
              EXCEPT !.file = JsonFile(cargo_name), !.urls = urls,
                     !.ret = "raised"]
        ELSE [Step("update_exam_with_pdf_urls", ref,
                   FindByKey(exams_list, ExamKey(ref)) # 0,
                   \E n \in 1..Len(exams_list) :
                       Triple(exams_list[n]) = Triple(ref),
                   outcome, 0)
              EXCEPT !.file = JsonFile(cargo_name), !.urls = urls,
                     !.ret = UpsertReturn(outcome)]

\* process_cargo: update_exam_with_pdf_urls(cargo_name, exam_link_details, pdf_urls);
\* an exception of its loop is caught nowhere up to main
UpdateExamWithPdfUrls(outcome) ==
    /\ pc = "upsert"
    /\ files' = UpdateExam(files, cargos[cargoIdx].name, exam_link_list[i],
                           pdf_urls, outcome)
    /\ last' = UpsertStep(files, cargos[cargoIdx].name, exam_link_list[i],
                           pdf_urls, outcome)
    /\ IF LoopRaises(files[JsonFile(cargos[cargoIdx].name)])
       THEN Halt("raised")
       ELSE IF outcome = "interrupted"
       THEN Halt("killed")
       ELSE /\ pc' = "save_master"
            /\ UNCHANGED <<exam_pdf_urls, exam_link_list, i, pdf_urls, page,
                           pauses>>
    /\ UNCHANGED <<master, run, cargoIdx, site, detailCalls, resolved, snap>>

\* process_cargo: write the master list, sleep, next exam
SaveMaster(outcome) ==
    /\ pc = "save_master"
    /\ master' = WriteFile(master, exam_pdf_urls, outcome)
    /\ last' = Step("save_master", exam_link_list[i], FALSE, FALSE, outcome, 0)
    /\ IF outcome = "interrupted"
       THEN Halt("killed")
       ELSE /\ pc' = "loop"
            /\ i' = i + 1
            /\ pauses' = Sleep(pauses, ExamDelay)
            /\ UNCHANGED <<exam_pdf_urls, exam_link_list, pdf_urls, page>>
    /\ UNCHANGED <<files, run, cargoIdx, site, detailCalls, resolved, snap>>

\* the process is interrupted between two steps
Kill ==
    /\ pc \in Running
    /\ Halt("killed")
    /\ UNCHANGED <<files, master, run, cargoIdx, site, detailCalls, resolved,
                   snap, last>>

\* the script is started again on the disk the previous execution left
Restart ==
    /\ pc \in {"done", "raised", "killed"}
    /\ run < MaxRuns
    /\ run' = run + 1
    /\ pc' = "main"
    /\ cargoIdx' = 1
    /\ detailCalls' = NoCalls
    /\ snap' = [files |-> files, master |-> master,
                after |-> IF pc = "killed" THEN FlushKind(last) ELSE "none",
                calls |-> {k \in Keys : detailCalls[k] > 0}]
    /\ last' = NoStep
    /\ UNCHANGED <<files, master, exam_pdf_urls, exam_link_list, i, pdf_urls,
                   page, pauses, site, resolved>>

Next ==
    \/ MainLoop
    \/ LoadMaster
    \/ ExtractExamLinks
    \/ ExtractExamLinksFails
    \/ CargoDone
    \/ SkipCached
    \/ ExtractPdfUrls
    \/ ExtractPdfUrlsFails
    \/ \E outcome \in WriteOutcomes : UpdateExamWithPdfUrls(outcome)
    \/ \E outcome \in WriteOutcomes : SaveMaster(outcome)
    \/ Kill
    \/ Restart

Spec == Init /\ [][Next]_vars

-----------------------------------------------------------------------------
(* Executions in which no write of the master list fails: it is written,   *)
(* or the process is stopped.  Everything else can fail as in Spec.        *)

NextMasterWritten ==
    \/ MainLoop
    \/ LoadMaster
    \/ ExtractExamLinks
    \/ ExtractExamLinksFails
    \/ CargoDone
    \/ SkipCached
    \/ ExtractPdfUrls
    \/ ExtractPdfUrlsFails
    \/ \E outcome \in WriteOutcomes : UpdateExamWithPdfUrls(outcome)
    \/ \E outcome \in {"ok", "interrupted"} : SaveMaster(outcome)
    \/ Kill
    \/ Restart

SpecMasterWritten == Init /\ [][NextMasterWritten]_vars

-----------------------------------------------------------------------------
(* Executions with every page answering and every write succeeding, each   *)
(* against the listings of the first and the disk the one before left.     *)

NextRerun ==
    \/ MainLoop
    \/ LoadMaster
    \/ ExtractExamLinks
    \/ CargoDone
    \/ SkipCached
    \/ ExtractPdfUrls
    \/ UpdateExamWithPdfUrls("ok")
    \/ SaveMaster("ok")
    \/ Restart

SpecRerun == Init /\ [][NextRerun]_vars

-----------------------------------------------------------------------------
(* Executions with every page answering and every write succeeding,        *)
(* started on a disk that earlier executions or other programs left:       *)
(* files that are absent, do not parse, hold a list of something else than *)
(* records, or hold records of exams of the listings, with or without      *)
(* PdfUrls and with fields the listing has since changed.                  *)

\* a record of exam e as an earlier listing showed it, without PdfUrls
Legacy(e) ==
    [position |-> e.position, agency |-> e.agency, year |-> e.year,
     organizer |-> "stale"]

OldUrls == <<"https://site/files/old.pdf">>

\* the same record with the PdfUrls found then
Stored(e) == DictSet(Legacy(e), "PdfUrls", OldUrls)

DiskFiles ==
    {Absent, Corrupt, NonRecords, Ok(<<Legacy(E3), Legacy(E4)>>),
     Ok(<<Stored(E4)>>)}

DiskMasters ==
    {Absent, Corrupt, Ok([k \in {ExamKey(E4)} |-> OldUrls])}

InitDisk ==
    /\ files \in [FileNames -> DiskFiles]
    /\ master \in DiskMasters
    /\ pc = "main"
    /\ run = 1
    /\ cargoIdx = 1
    /\ exam_pdf_urls = EmptyDict
    /\ exam_link_list = <<>>
    /\ i = 1
    /\ pdf_urls = <<>>
    /\ page = NoPage
    /\ pauses = NoPauses
    /\ site \in Sites
    /\ detailCalls = NoCalls
    /\ resolved = {}
    /\ snap = [files |-> files, master |-> master, after |-> "none",
               calls |-> {}]
    /\ last = NoStep

SpecDisk == InitDisk /\ [][NextRerun]_vars

-----------------------------------------------------------------------------
(* One execution on such a disk in which every page operation returns: the *)
(* pages load, the process is not stopped, and a write succeeds or raises  *)
(* inside its try block.  The script runs on: it takes its next step       *)
(* whenever it has one.                                                    *)

\* the outcomes of a write after which the writer returns
Returned == WriteOutcomes \ {"interrupted"}

NextReturns ==
    \/ MainLoop
    \/ LoadMaster
    \/ ExtractExamLinks
    \/ CargoDone
    \/ SkipCached
    \/ ExtractPdfUrls
    \/ \E outcome \in Returned : UpdateExamWithPdfUrls(outcome)
    \/ \E outcome \in Returned : SaveMaster(outcome)

SpecReturns == InitDisk /\ [][NextReturns]_vars /\ WF_vars(NextReturns)

-----------------------------------------------------------------------------
(* The script of extract_pdf_urls on its own: it is evaluated once on a    *)
(* document with any links, up to MaxLinks of them.                        *)

Links == {LinkA, LinkB, LinkC, LinkD, LinkH, LinkN, LinkR}

Documents ==
    {[origin |-> Origin, links |-> l, rows |-> <<>>] :
        l \in UNION {[1..n -> Links] : n \in 0..MaxLinks}}

InitPage ==
    /\ files = [f \in FileNames |-> Absent]
    /\ master = Absent
    /\ pc = "page"
    /\ run = 1
    /\ cargoIdx = 1
    /\ exam_pdf_urls = EmptyDict
    /\ exam_link_list = <<>>
    /\ i = 1
    /\ pdf_urls = <<>>
    /\ page \in Documents
    /\ pauses = NoPauses
    /\ site = [u \in CargoUrls |-> <<>>]
    /\ detailCalls = NoCalls
    /\ resolved = {}
    /\ snap = NoSnap
    /\ last = NoStep

\* pdf_links = page.evaluate(...)
Evaluate ==
    /\ pc = "page"
    /\ pdf_urls' = ExtractPdfLinks(page)
    /\ pc' = "evaluated"
    /\ UNCHANGED <<files, master, run, cargoIdx, exam_pdf_urls,
                   exam_link_list, i, page, pauses, site, detailCalls,
                   resolved, snap, last>>

SpecPage == InitPage /\ [][Evaluate]_vars

-----------------------------------------------------------------------------
(* The script of extract_exam_links on its own: it is evaluated once on a  *)
(* document whose table has the header row and up to MaxRows rows below.   *)

\* a row without a link in its first cell
RowNoLink ==
    <<Cell("td", <<"f">>, <<>>), Cell("td", <<"2022">>, <<>>),
      LinkCell("c"), LinkCell("o1"), Cell("td", <<"l1">>, <<>>)>>

\* a row of one cell
RowShort ==
    <<Cell("td", <<"g">>, <<[text |-> <<"g">>, href |-> "https://site/exam/5"]>>)>>

Rows == {RowOf(E1), RowOf(E4), RowNoLink, RowShort}

Tables ==
    {[origin |-> Origin, links |-> <<>>, rows |-> <<HeaderRow>> \o r] :
        r \in UNION {[1..n -> Rows] : n \in 0..MaxRows}}

InitListing ==
    /\ files = [f \in FileNames |-> Absent]
    /\ master = Absent
    /\ pc = "table"
    /\ run = 1
    /\ cargoIdx = 1
    /\ exam_pdf_urls = EmptyDict
    /\ exam_link_list = <<>>
    /\ i = 1
    /\ pdf_urls = <<>>
    /\ page \in Tables
    /\ pauses = NoPauses
    /\ site = [u \in CargoUrls |-> <<>>]
    /\ detailCalls = NoCalls
    /\ resolved = {}
    /\ snap = NoSnap
    /\ last = NoStep

\* exam_links = page.evaluate(...)
EvaluateListing ==
    /\ pc = "table"
    /\ exam_link_list' = ExtractExamRows(page)
    /\ pc' = "listed"
    /\ UNCHANGED <<files, master, run, cargoIdx, exam_pdf_urls, i, pdf_urls,
                   page, pauses, site, detailCalls, resolved, snap, last>>

SpecListing == InitListing /\ [][EvaluateListing]_vars

-----------------------------------------------------------------------------
(* update_exam_with_pdf_urls on its own: any sequence of calls for one     *)
(* cargo of the catalog, with any reference and any list of URLs.          *)

UrlLists == {ExtractPdfLinks(p) : p \in {PageA, PageB, PageNone}}

InitStore ==
    /\ files = [f \in FileNames |-> Absent]
    /\ master = Absent
    /\ pc = "store"
    /\ run = 1
    /\ cargoIdx \in 1..Len(cargos)
    /\ exam_pdf_urls = EmptyDict
    /\ exam_link_list = <<>>
    /\ i = 1
    /\ pdf_urls = <<>>
    /\ page = NoPage
    /\ pauses = NoPauses
    /\ site = [u \in CargoUrls |-> <<>>]
    /\ detailCalls = NoCalls
    /\ resolved = {}
    /\ snap = NoSnap
    /\ last = NoStep

UpsertCall(ref, urls, outcome) ==
    /\ pc = "store"
    /\ files' = UpdateExam(files, cargos[cargoIdx].name, ref, urls, outcome)
    /\ last' = UpsertStep(files, cargos[cargoIdx].name, ref, urls, outcome)
    /\ UNCHANGED <<master, pc, run, cargoIdx, exam_pdf_urls, exam_link_list,
                   i, pdf_urls, page, pauses, site, detailCalls, resolved,
                   snap>>

NextStore ==
    \E ref \in ExamLinks, urls \in UrlLists, outcome \in WriteOutcomes :
        UpsertCall(ref, urls, outcome)

SpecStore == InitStore /\ [][NextStore]_vars

-----------------------------------------------------------------------------
(* update_exam_with_pdf_urls on files that hold records when the calls     *)
(* begin, two of them with the same key in one of the files.               *)

LoadedFiles ==
    {Absent, Ok(<<Legacy(E3), Legacy(E4)>>),
     Ok(<<Stored(E4), Legacy(E3), Legacy(E4)>>)}

InitLoaded ==
    /\ cargoIdx \in 1..Len(cargos)
    /\ \E file \in LoadedFiles :
          files = [f \in FileNames |->
                     IF f = JsonFile(cargos[cargoIdx].name) THEN file ELSE Absent]
    /\ master = Absent
    /\ pc = "store"
    /\ run = 1
    /\ exam_pdf_urls = EmptyDict
    /\ exam_link_list = <<>>
    /\ i = 1
    /\ pdf_urls = <<>>
    /\ page = NoPage
    /\ pauses = NoPauses
    /\ site = [u \in CargoUrls |-> <<>>]
    /\ detailCalls = NoCalls
    /\ resolved = {}
    /\ snap = NoSnap
    /\ last = NoStep

SpecLoaded == InitLoaded /\ [][NextStore]_vars

-----------------------------------------------------------------------------
(* Properties *)

\* the records of a per-cargo file, none if it does not hold a list of records
Records(fs, f) == IF fs[f].st = "ok" THEN fs[f].data ELSE <<>>

HasPdfUrls(rec) == "PdfUrls" \in DOMAIN rec

\* some per-cargo file holds a record with key k that has a PdfUrls field
StoredWithPdfUrls(k) ==
    \E f \in FileNames : \E n \in 1..Len(Records(files, f)) :
        /\ ExamKey(Records(files, f)[n]) = k
        /\ HasPdfUrls(Records(files, f)[n])

\* the master list on disk is readable and holds k
InMasterFile(k) == master.st = "ok" /\ k \in DOMAIN master.data

IsUpsert(step) == step.op = "update_exam_with_pdf_urls"

\* C1: no per-cargo file on disk ever holds two records with the same
\* (position, agency, year) key, whatever upserts and executions came before.
C1_NoDuplicateKeys ==
    \A f \in FileNames : \A m, n \in 1..Len(Records(files, f)) :
        m # n => ExamKey(Records(files, f)[m]) # ExamKey(Records(files, f)[n])

\* C1 witness: a second upsert with the same three fields found the record of
\* the first and the file still holds exactly one record.
C1_Witness ==
    /\ IsUpsert(last) /\ last.found /\ last.tripleHit /\ last.out = "ok"
    /\ Len(Records(files, last.file)) = 1

\* C2: two references are the same exam exactly when position, agency and
\* year are equal: an upsert merges into a stored record iff a record with the
\* same three fields is stored, and a reference is skipped as already
\* resolved only if a reference with the same three fields was resolved.
C2_SameExamIffSameTriple ==
    /\ IsUpsert(last) => (last.found <=> last.tripleHit)
    /\ last.op = "skip" => Triple(last.ref) \in resolved

CurrentFile == JsonFile(cargos[cargoIdx].name)

\* the last step was the successful save that ends the processing of an exam
\* whose detail page gave no URL
EmptyResultProcessed ==
    last.op = "save_master" /\ last.out = "ok" /\ pdf_urls = <<>>

\* the keys the previous execution called extract_pdf_urls for without
\* entering them into the master list
UnresolvedBefore == snap.calls \ DOMAIN LoadDict(snap.master)

\* C4: an empty result of extract_pdf_urls leaves a record of the exam with
\* PdfUrls = [] in the per-cargo file, and a second pass with the same inputs
\* does not call extract_pdf_urls for that exam again.
C4_EmptyIsSticky ==
    /\ EmptyResultProcessed =>
         \E n \in 1..Len(Records(files, CurrentFile)) :
            /\ ExamKey(Records(files, CurrentFile)[n]) = ExamKey(last.ref)
            /\ HasPdfUrls(Records(files, CurrentFile)[n])
            /\ Records(files, CurrentFile)[n]["PdfUrls"] = <<>>
    /\ run > 1 => \A k \in UnresolvedBefore : detailCalls[k] = 0

\* C4 as amended: an empty result of extract_pdf_urls is recorded nowhere (the
\* key does not enter the master list and no record has PdfUrls = []), and a
\* second pass with the same inputs calls extract_pdf_urls again for every
\* exam key the first pass left out of the master list.
C4_EmptyNotRecorded ==
    /\ EmptyResultProcessed =>
         /\ ~InMasterFile(ExamKey(last.ref))
         /\ \A f \in FileNames : \A n \in 1..Len(Records(files, f)) :
               HasPdfUrls(Records(files, f)[n])
                   => Records(files, f)[n]["PdfUrls"] # <<>>
    /\ (run > 1 /\ pc = "done") => \A k \in UnresolvedBefore : detailCalls[k] > 0

\* C4 witness: the second pass has ended and has called extract_pdf_urls
\* again for a key whose first call gave no URL.
C4_Witness ==
    /\ run > 1 /\ pc = "done"
    /\ \E k \in UnresolvedBefore : detailCalls[k] > 0

\* C5: an upsert never changes the PdfUrls of a stored record that has them.
C5_KeepsPdfUrls ==
    [][\A f \in FileNames : \A n \in 1..Len(Records(files, f)) :
          (HasPdfUrls(Records(files, f)[n]) /\ files'[f].st = "ok")
              => /\ n <= Len(Records(files', f))
                 /\ HasPdfUrls(Records(files', f)[n])
                 /\ Records(files', f)[n]["PdfUrls"] = Records(files, f)[n]["PdfUrls"]
      ]_vars

\* C5 as amended: an upsert whose key matches a stored record, with or without
\* PdfUrls, sets every field of the reference in that record, keeps its other
\* fields and replaces its PdfUrls by the list passed; the file keeps its
\* length.
C5_ReplacesPdfUrls ==
    [][(IsUpsert(last') /\ last'.found /\ last'.out = "ok") =>
          LET old == Records(files, last'.file)
              new == Records(files', last'.file)
              ref == last'.ref
          IN  /\ Len(new) = Len(old)
              /\ \E n \in 1..Len(old) :
                    /\ ExamKey(old[n]) = ExamKey(ref)
                    /\ \A m \in 1..(n - 1) : ExamKey(old[m]) # ExamKey(ref)
                    /\ DOMAIN new[n] = DOMAIN old[n] \cup DOMAIN ref \cup {"PdfUrls"}
                    /\ new[n]["PdfUrls"] = last'.urls
                    /\ \A fld \in DOMAIN ref : new[n][fld] = ref[fld]
                    /\ \A fld \in DOMAIN old[n] \ (DOMAIN ref \cup {"PdfUrls"}) :
                          new[n][fld] = old[n][fld]
      ]_vars

\* C5 witness: an upsert with an empty list found a stored record, and the
\* record now has PdfUrls = [] beside another record in the file.
C5_Witness ==
    /\ IsUpsert(last) /\ last.found /\ last.out = "ok" /\ last.urls = <<>>
    /\ Len(Records(files, last.file)) = 2
    /\ \E n \in 1..2 :
          /\ ExamKey(Records(files, last.file)[n]) = ExamKey(last.ref)
          /\ Records(files, last.file)[n]["PdfUrls"] = <<>>

\* the records with PdfUrls that the previous execution left on disk
MergedBefore(f) ==
    {Records(snap.files, f)[n] : n \in {m \in 1..Len(Records(snap.files, f)) :
                                          HasPdfUrls(Records(snap.files, f)[m])}}

\* C6: after an interruption right after a flush and a restart, no exam whose
\* record was stored before the interruption is fetched again, and at the end
\* every such record is still stored with the same PdfUrls.
C6_CrashResume ==
    (run > 1 /\ snap.after # "none") =>
        \A f \in FileNames : \A rec \in MergedBefore(f) :
            /\ detailCalls[ExamKey(rec)] = 0
            /\ pc = "done" =>
                 \E n \in 1..Len(Records(files, f)) :
                    /\ ExamKey(Records(files, f)[n]) = ExamKey(rec)
                    /\ HasPdfUrls(Records(files, f)[n])
                    /\ Records(files, f)[n]["PdfUrls"] = rec["PdfUrls"]

C8_AtomicFlush ==
    [][/\ master' = master \/ master'.st = "ok"
       /\ \A f \in FileNames : files'[f] = files[f] \/ files'[f].st = "ok"]_vars

\* C9: when navigation fails, extract_pdf_urls and extract_exam_links return
\* an empty sequence after 3 calls of page.goto and the program goes on.
C9_RetryThenEmpty ==
    (last.op \in {"extract_pdf_urls", "extract_exam_links"} /\ last.out # "ok")
        => (last.out = "empty" /\ last.navs = 3 /\ pc \in Running)

\* C10: no page failure ends main: the script only ends after the last cargo
\* of the catalog has been processed.
C10_NoFatalPageFailure ==
    /\ pc # "raised"
    /\ pc = "done" => cargoIdx = Len(cargos) + 1

\* the exam keys extract_pdf_urls has returned a result for in this execution
\* and that are not the exam the program is working on
ReturnedBefore ==
    {k \in Keys : detailCalls[k] > 0 /\ k # ExamKey(last.ref)}

\* C11: every result extract_pdf_urls returns is upserted and flushed before
\* the next page.goto: whenever the program is about to navigate, every exam
\* it has fetched in this execution has its record with PdfUrls on disk, and
\* an interruption at any point leaves on disk the record of every exam
\* fetched before the one in flight.
C11_FlushedBeforeNextNavigation ==
    /\ pc \in {"main", "load_master", "listing", "loop"} =>
          \A k \in Keys : detailCalls[k] > 0 => StoredWithPdfUrls(k)
    /\ pc = "killed" => \A k \in ReturnedBefore : StoredWithPdfUrls(k)

\* C12: a failed write does not end the execution, and after the next
\* successful write of the master list every exam key the execution has
\* entered into the master dict is on disk, in the master list and as a record
\* of a per-cargo file.
C12_NextFlushReconciles ==
    /\ (last.op \in {"update_exam_with_pdf_urls", "save_master"}
        /\ last.out \in {"open_error", "write_error"}) => pc \in Running
    /\ (last.op = "save_master" /\ last.out = "ok") =>
          \A k \in DOMAIN exam_pdf_urls :
              detailCalls[k] > 0 => (InMasterFile(k) /\ StoredWithPdfUrls(k))

\* C13: loading never raises and a file that is absent, does not parse or is
\* not a list of records gives an empty list (master: an empty dict), after
\* which the execution goes on as on an empty disk: no exception ends it, and
\* what update_exam_with_pdf_urls loads from such a file is empty.
C13_LoadNeverRaises ==
    /\ pc # "raised"
    /\ pc = "listing" => (master.st # "ok" => exam_pdf_urls = EmptyDict)
    /\ pc = "upsert" =>
          (files[CurrentFile].st # "ok" => LoadList(files[CurrentFile]) = <<>>)

\* the exam keys of the records of a per-cargo file
KeysOf(fs, f) == {ExamKey(Records(fs, f)[n]) : n \in 1..Len(Records(fs, f))}

\* C14: within an execution no step removes a record: the set of exam keys
\* held by each per-cargo file, by the master list on disk and by the master
\* dict in memory while a cargo is processed only grows, also across steps in
\* which a load or a write fails.
C14_KeysNeverRemoved ==
    [][(run' = run /\ pc' \in Running) =>
          /\ \A f \in FileNames : KeysOf(files, f) \subseteq KeysOf(files', f)
          /\ DOMAIN LoadDict(master) \subseteq DOMAIN LoadDict(master')
          /\ pc # "main" => DOMAIN exam_pdf_urls \subseteq DOMAIN exam_pdf_urls'
      ]_vars

\* rec holds every field of the reference ref, PdfUrls = urls, and beside
\* them the fields of base
MergedFrom(rec, base, ref, urls) ==
    /\ DOMAIN rec = DOMAIN base \cup DOMAIN ref \cup {"PdfUrls"}
    /\ rec["PdfUrls"] = urls
    /\ \A fld \in DOMAIN ref : rec[fld] = ref[fld]
    /\ \A fld \in DOMAIN base \ (DOMAIN ref \cup {"PdfUrls"}) : rec[fld] = base[fld]

\* C15: a successful upsert whose key matches no record of the file leaves
\* the records as they are and adds one record at the end, made of the fields
\* of the reference and PdfUrls; one whose key matches a record without
\* PdfUrls sets the fields of the reference and PdfUrls in that record, at
\* its place; either way every other record keeps its content and position.
C15_AppendOrMergeInPlace ==
    [][(IsUpsert(last') /\ last'.out = "ok") =>
          LET old == Records(files, last'.file)
              new == Records(files', last'.file)
              ref == last'.ref
              hits == {n \in 1..Len(old) : ExamKey(old[n]) = ExamKey(ref)}
          IN  IF hits = {}
              THEN /\ Len(new) = Len(old) + 1
                   /\ \A m \in 1..Len(old) : new[m] = old[m]
                   /\ MergedFrom(new[Len(new)], EmptyDict, ref, last'.urls)
              ELSE /\ Len(new) = Len(old)
                   /\ \E n \in hits :
                         /\ \A m \in 1..Len(old) : m # n => new[m] = old[m]
                         /\ ~HasPdfUrls(old[n]) =>
                               MergedFrom(new[n], old[n], ref, last'.urls)
      ]_vars

\* C15 witness: on a file that held two records without PdfUrls, a first
\* upsert has added a record at the end and a second has completed the second
\* record at its place, replacing the field the listing had changed.
C15_Witness ==
    /\ IsUpsert(last) /\ last.found /\ last.out = "ok" /\ run = 1
    /\ snap.files[last.file] = Ok(<<Legacy(E3), Legacy(E4)>>)
    /\ LET recs == Records(files, last.file)
       IN  /\ Len(recs) = 3
           /\ recs[1] = Legacy(E3)
           /\ ExamKey(recs[2]) = ExamKey(last.ref)
           /\ recs[2]["PdfUrls"] = last.urls
           /\ recs[2]["organizer"] = last.ref["organizer"]
           /\ HasPdfUrls(recs[3])

\* the listing of cargo c holds a reference with key k
Listed(c, k) ==
    \E m \in 1..Len(site[cargos[c].url]) : ExamKey(site[cargos[c].url][m]) = k

\* what extract_pdf_urls returns for the first reference with key k of the
\* listing of cargo c
ResultFor(c, k) ==
    LET listing == site[cargos[c].url]
        m == CHOOSE m \in 1..Len(listing) :
                /\ ExamKey(listing[m]) = k
                /\ \A j \in 1..(m - 1) : ExamKey(listing[j]) # k
    IN  ExtractPdfLinks(DetailPage(listing[m].url))

\* the records without PdfUrls that the disk held when the execution started,
\* as pairs of the cargo and the index in its file, whose key the listing of
\* the cargo shows
ListingOnly ==
    UNION {{<<c, n>> : n \in
               {m \in 1..Len(Records(snap.files, JsonFile(cargos[c].name))) :
                   LET rec == Records(snap.files, JsonFile(cargos[c].name))[m]
                   IN  ~HasPdfUrls(rec) /\ Listed(c, ExamKey(rec))}}
           : c \in 1..Len(cargos)}

SkippedStored(n) ==
    /\ last.op = "skip"
    /\ n \in 1..Len(Records(files, CurrentFile))
    /\ Triple(Records(files, CurrentFile)[n]) = Triple(last.ref)
    /\ HasPdfUrls(Records(files, CurrentFile)[n])

\* C17: when a reference is skipped because its exam is already resolved, the
\* stored record of the exam holds the fields of the new reference afterwards.
C17_SkipRefreshesFields ==
    last.op = "skip" =>
        \A n \in 1..Len(Records(files, CurrentFile)) :
            SkippedStored(n) =>
                \A fld \in DOMAIN last.ref :
                    /\ fld \in DOMAIN Records(files, CurrentFile)[n]
                    /\ Records(files, CurrentFile)[n][fld] = last.ref[fld]

\* C17 as amended: the step that skips a reference calls extract_pdf_urls for
\* nothing and writes no file: the stored record keeps every field as it was,
\* the non-document fields as well as PdfUrls.
C17_SkipLeavesRecord ==
    [][(pc = "loop" /\ last'.op = "skip" /\ i' = i + 1) =>
          /\ detailCalls' = detailCalls
          /\ files' = files
      ]_vars

\* C17 witness: a reference has been skipped whose stored record has PdfUrls
\* and an organizer field that differs from the one of the reference.
C17_Witness ==
    /\ last.op = "skip"
    /\ \E n \in 1..Len(Records(files, CurrentFile)) :
          /\ SkippedStored(n)
          /\ Records(files, CurrentFile)[n]["organizer"] # last.ref["organizer"]
          /\ Records(files, CurrentFile)[n]["PdfUrls"] = OldUrls

\* the step goes from one reference of the listing to the next: it is the
\* skip of the current reference or the save that ends its processing
NextInOrder ==
    (i' # i /\ i' # 1) =>
        /\ i' = i + 1
        /\ last'.op \in {"skip", "save_master"}
        /\ last'.ref = exam_link_list[i]

\* the step leaves the current cargo for the next of the catalog
LeavesCargo == run' = run /\ cargoIdx' # cargoIdx

\* C18: the references of a listing are taken one after the other in listing
\* order, and the cargo is left only when each of them has been skipped as
\* already in the master dict or fetched and entered into it.
C18_LeavesAfterAllMerged ==
    [][/\ NextInOrder
       /\ LeavesCargo =>
             /\ i = Len(exam_link_list) + 1
             /\ \A n \in 1..Len(exam_link_list) :
                   InMaster(ExamKey(exam_link_list[n]), exam_pdf_urls)
      ]_vars

\* C18 as amended: the references are taken in listing order, and the cargo
\* is left only when each of them has been skipped as already in the master
\* dict, or fetched and entered into it, or fetched with an empty result, in
\* which case it has been entered nowhere.
C18_LeavesAfterAllHandled ==
    [][/\ NextInOrder
       /\ LeavesCargo =>
             /\ i = Len(exam_link_list) + 1
             /\ \A n \in 1..Len(exam_link_list) :
                   \/ InMaster(ExamKey(exam_link_list[n]), exam_pdf_urls)
                   \/ /\ detailCalls[ExamKey(exam_link_list[n])] > 0
                      /\ ExtractPdfLinks(DetailPage(exam_link_list[n].url)) = <<>>
      ]_vars

\* C18 witness: a cargo with three references has been left; two of them are
\* in the master dict and one, fetched with an empty result, is not.
C18_Witness ==
    /\ last.op = "cargo_done"
    /\ Len(exam_link_list) = 3
    /\ Cardinality({n \in 1..3 :
                      InMaster(ExamKey(exam_link_list[n]), exam_pdf_urls)}) = 2
    /\ \E n \in 1..3 :
          /\ ~InMaster(ExamKey(exam_link_list[n]), exam_pdf_urls)
          /\ detailCalls[ExamKey(exam_link_list[n])] > 0

\* the address the script pushes for the n-th link of the document shown
UrlOf(n) == Absolute(page.origin, page.links[n].href)

\* the links of the document shown whose href holds ".pdf"
PdfLinks == {n \in 1..Len(page.links) : IsPdf(page.links[n])}

\* those of them whose text holds "Baixar"
BaixarLinks == {n \in PdfLinks : Includes(page.links[n].text, "Baixar")}

\* the links the result is made from
UsedLinks == IF BaixarLinks # {} THEN BaixarLinks ELSE PdfLinks

\* C19: the result of the script holds exactly the addresses of the links
\* with "Baixar" in the text and ".pdf" in the href if the document has such
\* a link, and exactly the addresses of all links with ".pdf" in the href if
\* it has none.
C19_TwoPasses ==
    pc = "evaluated" =>
        {pdf_urls[n] : n \in 1..Len(pdf_urls)} = {UrlOf(n) : n \in UsedLinks}

\* C19 witness: the document has a ".pdf" link with "Baixar" and one
\* without, to another address, and the result holds the first only.
C19_Witness ==
    /\ pc = "evaluated"
    /\ BaixarLinks # {}
    /\ pdf_urls # <<>>
    /\ \E n \in PdfLinks \ BaixarLinks :
          \A m \in 1..Len(pdf_urls) : pdf_urls[m] # UrlOf(n)

\* the place in the document of the first link used that gives address u
FirstAt(u) ==
    CHOOSE n \in UsedLinks :
        UrlOf(n) = u /\ \A m \in UsedLinks : UrlOf(m) = u => n <= m

\* C20: the result of the script holds no address twice, and its addresses
\* are in the order in which the links they were first taken from stand in
\* the document.
C20_DistinctInFirstSeenOrder ==
    pc = "evaluated" =>
        \A m, n \in 1..Len(pdf_urls) :
            m < n => /\ pdf_urls[m] # pdf_urls[n]
                     /\ FirstAt(pdf_urls[m]) < FirstAt(pdf_urls[n])

\* C20 witness: the first and the third link of the document give the same
\* address through different hrefs, the second another; the result holds the
\* address of the first, then that of the second.
C20_Witness ==
    /\ pc = "evaluated"
    /\ Len(page.links) = 3 /\ UsedLinks = {1, 2, 3}
    /\ page.links[1].href # page.links[3].href
    /\ UrlOf(1) = UrlOf(3) /\ UrlOf(1) # UrlOf(2)
    /\ pdf_urls = <<UrlOf(1), UrlOf(2)>>

\* the absolute address of href resolved against origin: an absolute href is
\* the address, a href that starts with "/" is a path from the origin, any
\* other href is a relative path, joined to the origin by "/"
Resolved(origin, href) ==
    IF Head(href) = "http" THEN Concat(href)
    ELSE IF Head(href) = "/" THEN origin \o Concat(href)
    ELSE origin \o "/" \o Concat(href)

\* C21: every address in the result of the script is absolute: it is the
\* href itself for a link whose href is absolute and the href resolved
\* against the origin of the document for a link whose href is relative.
C21_AbsoluteUrls ==
    pc = "evaluated" =>
        {pdf_urls[n] : n \in 1..Len(pdf_urls)}
            = {Resolved(page.origin, page.links[n].href) : n \in UsedLinks}

\* the reference a row of the table stands for, none for a row that names
\* no exam page
Expected(row) ==
    CASE row = RowOf(E1) -> <<E1>>
      [] row = RowOf(E4) -> <<E4>>
      [] row = RowShort ->
            <<[url |-> "https://site/exam/5", position |-> "g", year |-> "",
               agency |-> "", organizer |-> "", level |-> ""]>>
      [] OTHER -> <<>>

\* the references of the rows from the n-th on, in page order
RECURSIVE ExpectedFrom(_, _)
ExpectedFrom(rows, n) ==
    IF n > Len(rows) THEN <<>>
    ELSE Expected(rows[n]) \o ExpectedFrom(rows, n + 1)

\* C22: the script returns one reference per row of the table below the
\* header row, in page order, with "" for every field whose cell or link the
\* row lacks.
C22_OnePerDataRow ==
    pc = "listed" =>
        /\ Len(exam_link_list) = Len(page.rows) - 1
        /\ exam_link_list = ExpectedFrom(page.rows, 2)

\* C22 as amended: the script returns one reference per row below the header
\* row whose first cell holds a link with a href, in page order, with the
\* texts trimmed and "" for every other field whose cell or link the row
\* lacks; a row without such a link gives no reference.
C22_OnePerLinkedRow ==
    pc = "listed" => exam_link_list = ExpectedFrom(page.rows, 2)

\* C22 witness: of three rows below the header, the one without a link in
\* its first cell is left out and the one without agency and organizer links
\* is returned with both fields empty.
C22_Witness ==
    /\ pc = "listed"
    /\ page.rows = <<HeaderRow, RowOf(E4), RowNoLink, RowShort>>
    /\ Len(exam_link_list) = 2
    /\ exam_link_list[1].agency = "" /\ exam_link_list[1].organizer = ""
    /\ exam_link_list[1].position = "d"
    /\ exam_link_list[2].level = ""

\* the page.goto calls of a step: each is page.goto(url,
\* wait_until="networkidle"), without a timeout argument
GotoCalls(step) ==
    [k \in 1..step.navs |-> [timeout_given |-> FALSE, timeout |-> 0]]

\* the seconds slept between the page.goto calls of a step: extract_pdf_urls
\* and extract_exam_links call page.goto once and never sleep
Backoffs(step) == [k \in 1..(step.navs - 1) |-> 0]

\* C23: the first page.goto of a navigation is given a timeout of 60000 ms,
\* and a navigation that fails makes two more attempts, the k-th of them
\* with a timeout of 60000 + 15000 k ms and after a sleep of 3 + 2 k seconds.
C23_RetrySchedule ==
    last.navs > 0 =>
        /\ GotoCalls(last)[1].timeout_given
        /\ GotoCalls(last)[1].timeout = 60000
        /\ last.out # "ok" =>
              /\ last.navs = 3
              /\ \A k \in 1..2 :
                    /\ GotoCalls(last)[k + 1].timeout = 60000 + 15000 * k
                    /\ Backoffs(last)[k] = 3 + 2 * k

\* the step calls page.goto
Navigates == last'.navs > 0 /\ last' # last

\* C24: when a page.goto begins and the one before it was that of a detail
\* page, the first thing slept since is the pause of 2 s; when the page.goto
\* of the listing of a cargo other than the first begins, the last thing
\* slept is the pause of 3 s that follows a cargo.
C24_PausesBetweenFetches ==
    [][Navigates =>
          /\ pauses.after = "detail" =>
                (pauses.slept # <<>> /\ Head(pauses.slept) = 2)
          /\ (last'.op = "extract_exam_links" /\ cargoIdx > 1) =>
                (pauses.slept # <<>> /\ pauses.slept[Len(pauses.slept)] = 3)
      ]_vars

\* C24 witness: the listing of the second cargo is about to be fetched; the
\* last page.goto was a detail page, and 2 s and then 3 s have been slept.
C24_Witness ==
    /\ pc = "listing" /\ cargoIdx = 2
    /\ pauses = [after |-> "detail", slept |-> <<2, 3>>]

\* the records stored on disk, as pairs of the cargo and the index in its file
StoredAt ==
    UNION {{<<c, n>> : n \in 1..Len(Records(files, JsonFile(cargos[c].name)))}
           : c \in 1..Len(cargos)}

\* the n-th record of the file of cargo c
RecordAt(c, n) == Records(files, JsonFile(cargos[c].name))[n]

\* C25: every record on disk has a cargo_source field that names the cargo
\* under which the exam was found.
C25_HasCargoSource ==
    \A cn \in StoredAt :
        /\ "cargo_source" \in DOMAIN RecordAt(cn[1], cn[2])
        /\ RecordAt(cn[1], cn[2])["cargo_source"] = Concat(cargos[cn[1]].name)

\* C25 as amended: every record on disk has exactly the six fields of the
\* listing row and PdfUrls, none of which names the cargo; the cargo is told
\* by the file alone: the record is in the file of a cargo whose listing
\* shows its exam.
C25_CargoByFileOnly ==
    \A cn \in StoredAt :
        /\ DOMAIN RecordAt(cn[1], cn[2]) =
              {"url", "position", "year", "agency", "organizer", "level",
               "PdfUrls"}
        /\ \E m \in 1..Len(site[cargos[cn[1]].url]) :
              site[cargos[cn[1]].url][m].url = RecordAt(cn[1], cn[2]).url

\* C25 witness: the files of both cargos hold a record.
C25_Witness ==
    \A c \in 1..Len(cargos) : \E cn \in StoredAt : cn[1] = c

\* C26: every exam key of the master list on disk has a record with the same
\* PdfUrls in a per-cargo file, at every point of every execution, also after
\* a failed write of a per-cargo file or an interruption between the writes.
C26_MasterOnlyWithRecord ==
    \A k \in DOMAIN LoadDict(master) :
        \E cn \in StoredAt :
            /\ ExamKey(RecordAt(cn[1], cn[2])) = k
            /\ HasPdfUrls(RecordAt(cn[1], cn[2]))
            /\ RecordAt(cn[1], cn[2])["PdfUrls"] = LoadDict(master)[k]

\* C27: while no write of the master list fails, extract_pdf_urls is called
\* at most once in an execution for an exam key whose detail page gives at
\* least one URL, however often the listings show the key.
C27_FoundFetchedOnce ==
    \A e \in ExamLinks :
        ExtractPdfLinks(DetailPage(e.url)) # <<>> => detailCalls[ExamKey(e)] <= 1

\* C27 witness: in the first execution a reference of the second cargo is
\* skipped whose key both listings show; the key has been fetched once, and
\* its record is in the file of the first cargo only.
C27_Witness ==
    /\ run = 1 /\ cargoIdx = 2 /\ last.op = "skip"
    /\ Listed(1, ExamKey(last.ref)) /\ Listed(2, ExamKey(last.ref))
    /\ detailCalls[ExamKey(last.ref)] = 1
    /\ ExamKey(last.ref) \in KeysOf(files, JsonFile(cargos[1].name))
    /\ ExamKey(last.ref) \notin KeysOf(files, JsonFile(cargos[2].name))

\* C28: every value of the master list, in memory and on disk, and every
\* PdfUrls field of a stored record is a non-empty sequence, and
\* update_exam_with_pdf_urls is called with a non-empty sequence only.
C28_NonEmptyUrls ==
    /\ \A k \in DOMAIN exam_pdf_urls : Len(exam_pdf_urls[k]) > 0
    /\ \A k \in DOMAIN LoadDict(master) : Len(LoadDict(master)[k]) > 0
    /\ \A cn \in StoredAt :
          HasPdfUrls(RecordAt(cn[1], cn[2]))
              => Len(RecordAt(cn[1], cn[2])["PdfUrls"]) > 0
    /\ pc = "upsert" => Len(pdf_urls) > 0
    /\ IsUpsert(last) => Len(last.urls) > 0

\* C28 witness: the processing of an exam whose detail page gave no URL has
\* ended with a written master list that holds another exam of the listing,
\* whose record with PdfUrls is in the cargo's file.
C28_Witness ==
    /\ EmptyResultProcessed
    /\ detailCalls[ExamKey(last.ref)] > 0
    /\ ExamKey(last.ref) \notin DOMAIN LoadDict(master)
    /\ \E k \in DOMAIN LoadDict(master) : StoredWithPdfUrls(k)

\* the per-cargo files that hold a record with key k
StoredIn(k) == {f \in FileNames : k \in KeysOf(files, f)}

\* the step skips the current reference of the listing
Skips == pc = "loop" /\ last'.op = "skip" /\ i' = i + 1

RECURSIVE SumOver(_, _)
SumOver(f, S) ==
    IF S = {} THEN 0
    ELSE LET x == CHOOSE y \in S : TRUE IN f[x] + SumOver(f, S \ {x})

\* the number of calls of extract_pdf_urls in this execution
Fetches == SumOver(detailCalls, Keys)

\* the number of references extract_exam_links returned for the first c cargos
RowsReturned(c) ==
    SumOver([b \in 1..c |->
                Len(ExtractExamRows(ListingPage(site[cargos[b].url])))], 1..c)

\* the cargos process_cargo has been called for and has got the listing of
ListedCargos ==
    IF pc \in {"main", "load_master", "listing", "done"}
    THEN cargoIdx - 1
    ELSE cargoIdx

\* C31: when every page operation returns, main ends after the loop over the
\* catalog: it reaches its end, process_cargo has then returned for every
\* cargo, the cargos are taken one by one in catalog order, and at no time has
\* extract_pdf_urls been called more often than extract_exam_links has
\* returned references.
C31_TerminatesOncePerCargo ==
    /\ <>(pc = "done" /\ cargoIdx = Len(cargos) + 1)
    /\ [][cargoIdx' # cargoIdx =>
             pc = "loop" /\ pc' = "main" /\ cargoIdx' = cargoIdx + 1]_vars
    /\ [](Fetches <= RowsReturned(ListedCargos))

\* C32: a call of update_exam_with_pdf_urls whose load or write meets a
\* storage error does not raise: on a file that is absent or does not parse
\* it goes on, and when the write fails it returns False and process_cargo
\* continues.  It returns True exactly when the write completed, and the file
\* then holds the updated list; when it returns False the file is as it was
\* or no longer parses.
C32_ReturnTellsWrite ==
    [][(pc = "upsert" /\ IsUpsert(last')) =>
          LET old == files[last'.file]
              new == files'[last'.file]
              updated == UpdatedList(LoadList(old), last'.ref, last'.urls)
          IN  /\ old.st # "non_records" => last'.ret # "raised"
              /\ last'.out \in {"open_error", "write_error"} =>
                    last'.ret = "False" /\ pc' = "save_master"
              /\ last'.ret = "True" <=> last'.out = "ok"
              /\ last'.ret = "True" => new = Ok(updated)
              /\ last'.ret = "False" => new \in {old, Corrupt}
      ]_vars

\* C32 witness: a call on a file that held a record has returned False after
\* a write that failed part-way; the file no longer parses and process_cargo
\* is about to write the master list.
C32_Witness ==
    /\ IsUpsert(last) /\ last.ret = "False" /\ last.out = "write_error"
    /\ pc = "save_master"
    /\ files[last.file] = Corrupt
    /\ \E k \in DOMAIN exam_pdf_urls : k # ExamKey(last.ref)

====
